---- MODULE Spec2Model ----
(***************************************************************************)
(* A model of pySNID: the staged SNID pipeline (type, subtype, redshift,   *)
(* age) of src/pySNID/pySNID.py with its helpers in src/pySNID/            *)
(* pySNIDutils.py, and of the older copy in src/BSNIP_SNID.py with         *)
(* src/SNID_utils.py.  The two copies are told apart by `variant`.         *)
(*                                                                         *)
(* Python values are records tagged with their Python type.  Strings are   *)
(* tuples of characters so that slicing ([:2]) is computed, not assumed.   *)
(* Numbers read from a report are integers (redshifts in 0.01, ages in     *)
(* days); floats computed from them carry `h`, twice the value, so that    *)
(* the median of two rows stays exact.  A standard deviation carries the   *)
(* pair (v, n) with std^2 = v / n^2.                                       *)
(***************************************************************************)
EXTENDS Integers, Sequences, FiniteSets, TLC

\* variant          which copy runs: "pySNID" (src/pySNID) or "BSNID" (src/)
\* z                the caller's redshift (z, or data_dict['Redshift_Gal'])
\* relax_age_restr  the caller's flag
\* pc               where the caller stands
\* file             the report <basename>_snid.output in the working directory
\*                  (with its lines, where read_output_file is followed)
\* calls            the stage evaluator calls made so far, oldest first
\* res              the orchestrator's result variables, or the local
\*                  variables of read_output_file where that is followed
\* raised           the exception that ended the run, "" if none

VARIABLES variant, z, relax_age_restr, pc, file, calls, res, raised

vars == <<variant, z, relax_age_restr, pc, file, calls, res, raised>>

-----------------------------------------------------------------------------
(* Bounds of the model *)

MaxTypeRows == 2
MaxTemplRows == 2

-----------------------------------------------------------------------------
(* Python values *)

None == [ty |-> "NoneType"]
PyStr(s) == [ty |-> "str", s |-> s]
PyInt(n) == [ty |-> "int", h |-> 2 * n]
PyFloat(h) == [ty |-> "float", h |-> h]
NaN == [ty |-> "float", nan |-> TRUE]
NpFloat(h) == [ty |-> "numpy.float64", h |-> h]
NpStd(v, n) == [ty |-> "numpy.float64", v |-> v, n |-> n]
NpVoid(row) == [ty |-> "numpy.void", row |-> row]

\* type(v)
TypeOf(v) == [ty |-> "type", name |-> v.ty]

isnan(v) == "nan" \in DOMAIN v

EmptyStr == PyStr(<< >>)
ALL == PyStr(<<"a", "l", "l">>)
DEFAULT == PyStr(<<"d", "e", "f", "a", "u", "l", "t">>)

Ia == <<"I", "a">>
Ib == <<"I", "b">>
IaNorm == <<"I", "a", "-", "n", "o", "r", "m">>
IbNorm == <<"I", "b", "-", "n", "o", "r", "m">>
AGN == <<"A", "G", "N">>

NonSNLabels ==
    { <<"N", "o", "t", "S", "N">>, AGN, <<"G", "a", "l">>, <<"L", "B", "V">>,
      <<"M", "-", "s", "t", "a", "r">>, <<"C", "-", "S", "t", "a", "r">>,
      <<"Q", "S", "O">> }

Min(a, b) == IF a <= b THEN a ELSE b

\* s[:2]
Prefix2(s) == SubSeq(s, 1, Min(2, Len(s)))

\* the caller's redshift: a float, an int, NaN, None, a string
ZInputs == { PyFloat(6), PyInt(1), NaN, None, PyStr(<<"?">>) }

\* z_tol = 0.02
Z_TOL == PyFloat(4)

-----------------------------------------------------------------------------
(* Argument formatter *)

Token(name, arg) == [ty |-> "str", tok |-> name, arg |-> arg]

_z_arg(zz) ==
    IF (TypeOf(zz) = TypeOf(PyFloat(0)) \/ TypeOf(zz) = PyInt(1)) /\ ~ isnan(zz)
    THEN Token("forcez", zz)
    ELSE EmptyStr

z_arg(z_host) ==
    IF TypeOf(z_host) = TypeOf(PyFloat(0)) \/ TypeOf(z_host) = TypeOf(PyInt(0))
    THEN Token("forcez", z_host)
    ELSE EmptyStr

_template_arg(template) ==
    IF template = ALL THEN EmptyStr ELSE Token("usetype", template)

_rlap_arg(rlap) ==
    IF rlap = DEFAULT THEN EmptyStr ELSE Token("rlapmin", rlap)

-----------------------------------------------------------------------------
(* Parsed report tables: type_results and template_results *)

Grades == {"good", "bad"}

TypeRowsOver(labels, fractions) ==
    [type : labels, ntemp : {3}, fraction : fractions]

TemplRowsOver(labels, rlaps, zs, ages) ==
    [type : labels, grade : Grades, rlap : rlaps, z : zs, age : ages]

\* one row per distinct type label, in the report's order
TypeTablesOver(rows, n) ==
    { t \in UNION { [1..k -> rows] : k \in 1..n } :
        \A i, j \in DOMAIN t : i # j => t[i].type # t[j].type }

\* rows in the order SNID lists them: descending rlap
TemplTablesOver(rows, n) ==
    { t \in UNION { [1..k -> rows] : k \in 1..n } :
        \A i, j \in DOMAIN t : i < j => t[i].rlap >= t[j].rlap }

RECURSIVE Sum(_)
Sum(s) == IF s = << >> THEN 0 ELSE Head(s) + Sum(Tail(s))

RECURSIVE SumSq(_)
SumSq(s) == IF s = << >> THEN 0 ELSE Head(s) * Head(s) + SumSq(Tail(s))

RECURSIVE Insert(_, _)
Insert(x, s) ==
    IF s = << >> THEN <<x>>
    ELSE IF x <= Head(s) THEN <<x>> \o s
    ELSE <<Head(s)>> \o Insert(x, Tail(s))

RECURSIVE Sort(_)
Sort(s) == IF s = << >> THEN << >> ELSE Insert(Head(s), Sort(Tail(s)))

\* np.median of a non-empty array, as twice its value
Median2(s) ==
    LET o == Sort(s)
        n == Len(s)
    IN IF n % 2 = 1 THEN 2 * o[(n + 1) \div 2] ELSE o[n \div 2] + o[n \div 2 + 1]

np_median(s) == NpFloat(Median2(s))

\* np.std of a non-empty array: std^2 = v / n^2
np_std(s) == NpStd(Len(s) * SumSq(s) - Sum(s) * Sum(s), Len(s))

Column(t, f) == [i \in DOMAIN t |-> t[i][f]]

RECURSIVE MaxOf(_)
MaxOf(s) ==
    IF Len(s) = 1 THEN Head(s)
    ELSE LET m == MaxOf(Tail(s)) IN IF Head(s) >= m THEN Head(s) ELSE m

IsGood(r) == r.grade = "good"

GoodRows(template_results) == SelectSeq(template_results, IsGood)

\* an evaluator's outcome: the exception it raised ("" for none) and its value
Returns(v) == [raised |-> "", value |-> v]
Raises(e) == [raised |-> e, value |-> << >>]

-----------------------------------------------------------------------------
(* Stage evaluators: the decision each applies to the two parsed tables *)

\* rows of type_results holding the highest fraction, in table order
FavoredRows(type_results) ==
    LET mx == MaxOf(Column(type_results, "fraction"))
    IN SelectSeq(type_results, LAMBDA r : r.fraction = mx)

\* pySNID.SNID_type, after read_output_file
SNID_type_decide(type_results, template_results) ==
    LET fav == FavoredRows(type_results)[1]
        favored_type == fav.type
        fav_tp_frac == fav.fraction
        fav_tp_num == fav.ntemp
        good == GoodRows(template_results)
    IN IF Len(good) = 0 THEN Raises("IndexError")
       ELSE LET best_template == good[1]
                best_template_type ==
                    IF best_template.type \notin NonSNLabels
                    THEN Prefix2(best_template.type)
                    ELSE best_template.type
            IN IF fav_tp_frac >= 5 /\ favored_type = best_template_type
               THEN Returns(<<PyStr(favored_type), NpVoid(best_template),
                              PyInt(fav_tp_num)>>)
               ELSE Returns(<<None, None, None>>)

\* BSNIP_SNID.SNID_type, after read_output_file
BSNIP_type_decide(type_results, template_results) ==
    LET fav == FavoredRows(type_results)[1]
        favored_type == fav.type
        fav_tp_frac == fav.fraction
        good == GoodRows(template_results)
    IN IF Len(good) = 0 THEN Raises("IndexError")
       ELSE LET best_template_type == Prefix2(good[1].type)
            IN IF fav_tp_frac >= 5 /\ favored_type = best_template_type
               THEN Returns(<<PyStr(favored_type)>>)
               ELSE Returns(<<None>>)

\* SNID_subtype of either copy, after read_output_file
SNID_subtype_decide(type_results, template_results, template_type) ==
    LET tp_res_masked ==
            SelectSeq(type_results, LAMBDA r : PyStr(r.type) # template_type)
        good == GoodRows(template_results)
    IN IF Len(tp_res_masked) = 0 THEN Raises("ValueError")
       ELSE LET fav == FavoredRows(tp_res_masked)[1]
                favored_subtype == fav.type
                fav_stp_frac == fav.fraction
            IN IF Len(good) = 0 THEN Raises("IndexError")
               ELSE LET best_template_type == good[1].type
                    IN IF fav_stp_frac >= 5
                          /\ favored_subtype = best_template_type
                       THEN Returns(<<PyStr(favored_subtype)>>)
                       ELSE Returns(<<None>>)

\* mutant: the redshifts of all rows taken, whatever their grade
SNID_redshift_decide_AnyGrade(type_results, template_results) ==
    LET redshifts == Column(template_results, "z")
    IN IF Len(redshifts) > 0
       THEN Returns(<<np_median(redshifts), np_std(redshifts)>>)
       ELSE Returns(<<None, None>>)

\* SNID_redshift of either copy, after read_output_file
SNID_redshift_decide(type_results, template_results) ==
    LET redshifts == Column(GoodRows(template_results), "z")
    IN IF Len(redshifts) > 0
       THEN Returns(<<np_median(redshifts), np_std(redshifts)>>)
       ELSE Returns(<<None, None>>)

\* age_err < 4
ErrBelow4(age_err) == age_err.v < 16 * age_err.n * age_err.n

\* age_err < np.abs(0.2 * age)
ErrBelowAbsFifth(age_err, age) ==
    100 * age_err.v < age_err.n * age_err.n * age.h * age.h

\* age_err < 0.2 * age
ErrBelowFifth(age_err, age) ==
    age.h > 0 /\ 100 * age_err.v < age_err.n * age_err.n * age.h * age.h

\* mutant: every row graded "good" admitted, whatever its rlap
SNID_age_decide_NoCutoff(vnt, type_results, template_results, relax) ==
    LET good == GoodRows(template_results)
    IN IF Len(good) = 0 THEN Raises("IndexError")
       ELSE LET ages == Column(good, "age")
                age == np_median(ages)
                age_err == np_std(ages)
            IN IF relax = FALSE
               THEN IF ErrBelow4(age_err)
                       \/ (IF vnt = "pySNID"
                           THEN ErrBelowAbsFifth(age_err, age)
                           ELSE ErrBelowFifth(age_err, age))
                    THEN Returns(<<age, age_err>>)
                    ELSE Returns(<<None, None>>)
               ELSE Returns(<<age, age_err>>)

\* SNID_age of either copy, after read_output_file
SNID_age_decide(vnt, type_results, template_results, relax) ==
    LET good == GoodRows(template_results)
    IN IF Len(good) = 0 THEN Raises("IndexError")
       ELSE LET rlap_best == good[1].rlap
                ages == Column(SelectSeq(template_results,
                                   LAMBDA r : IsGood(r)
                                              /\ 4 * r.rlap >= 3 * rlap_best),
                               "age")
                age == np_median(ages)
                age_err == np_std(ages)
            IN IF relax = FALSE
               THEN IF ErrBelow4(age_err)
                       \/ (IF vnt = "pySNID"
                           THEN ErrBelowAbsFifth(age_err, age)
                           ELSE ErrBelowFifth(age_err, age))
                    THEN Returns(<<age, age_err>>)
                    ELSE Returns(<<None, None>>)
               ELSE Returns(<<age, age_err>>)

-----------------------------------------------------------------------------
(* Process runner: the report file <basename>_snid.output and the SNID run *)

NoFile == [exists |-> FALSE]

\* a report as SNID writes it; `stale` marks a report left by an earlier run
Report(tt, tpl) ==
    [exists |-> TRUE, stale |-> FALSE, type_results |-> tt,
     template_results |-> tpl]

\* what is on disk when a stage evaluator is entered is left from before
Aged(f) == IF f.exists THEN [f EXCEPT !.stale = TRUE] ELSE f

\* SNID exits having written `written`, or nothing when written = NoFile
AfterRun(f, written) == IF written.exists THEN written ELSE f

HasToken(cmd, name) ==
    \E i \in DOMAIN cmd : "tok" \in DOMAIN cmd[i] /\ cmd[i].tok = name

TokenArg(cmd, name) ==
    LET i == CHOOSE j \in DOMAIN cmd :
                 "tok" \in DOMAIN cmd[j] /\ cmd[j].tok = name
    IN cmd[i].arg

Arg(kw, name, default) == IF name \in DOMAIN kw THEN kw[name] ELSE default

\* the keyword parameters of pySNIDutils.exec_SNID
ExecParams == {"z", "template", "rlap", "z_tol", "print_cmd"}

\* pySNIDutils.exec_SNID called with keyword arguments kw
exec_SNID(kw, before, written) ==
    IF ~ (DOMAIN kw \subseteq ExecParams)
    THEN [raised |-> "TypeError", cmd |-> << >>, launched |-> FALSE,
          wrote |-> FALSE, file |-> before, output_file |-> None]
    ELSE LET forcez_arg == _z_arg(Arg(kw, "z", None))
             ztol_arg == Token("zfilter", Arg(kw, "z_tol", Z_TOL))
             rlap_arg == _rlap_arg(Arg(kw, "rlap", DEFAULT))
             template_arg == _template_arg(Arg(kw, "template", ALL))
             snid_command == <<rlap_arg, forcez_arg, ztol_arg, template_arg>>
             removed == IF before.exists THEN NoFile ELSE before
             after == AfterRun(removed, written)
         IN [raised |-> "", cmd |-> snid_command, launched |-> TRUE,
             wrote |-> written.exists, file |-> after,
             output_file |-> IF after.exists THEN PyStr(<<"o">>) ELSE None]

\* what one call of a stage evaluator did
Outcome(ex, d, parsed) ==
    [raised |-> d.raised, value |-> d.value, cmd |-> ex.cmd,
     launched |-> ex.launched, wrote |-> ex.wrote, file |-> ex.file,
     parsed |-> parsed,
     stale_read |-> parsed /\ ex.file.exists /\ ex.file.stale]

Nones(n) == [i \in 1..n |-> None]

\* pySNID.SNID_type(fname, z, rlap, z_tol, zmin, zmax)
SNID_type(a, f, written) ==
    LET ex == exec_SNID([z |-> a.z, rlap |-> a.rlap, z_tol |-> a.z_tol,
                         zmin |-> a.zmin, zmax |-> a.zmax], Aged(f), written)
    IN IF ex.raised # "" THEN Outcome(ex, Raises(ex.raised), FALSE)
       ELSE IF ex.output_file = None
       THEN Outcome(ex, Returns(Nones(3)), FALSE)
       ELSE Outcome(ex, SNID_type_decide(ex.file.type_results,
                                         ex.file.template_results), TRUE)

\* pySNID.SNID_subtype(fname, z, template_type, rlap, z_tol, zmin, zmax)
SNID_subtype(a, f, written) ==
    LET ex == exec_SNID([z |-> a.z, template |-> a.template_type,
                         rlap |-> a.rlap, z_tol |-> a.z_tol,
                         zmin |-> a.zmin, zmax |-> a.zmax], Aged(f), written)
    IN IF ex.raised # "" THEN Outcome(ex, Raises(ex.raised), FALSE)
       ELSE IF ex.output_file = None
       THEN Outcome(ex, Returns(Nones(1)), FALSE)
       ELSE Outcome(ex, SNID_subtype_decide(ex.file.type_results,
                            ex.file.template_results, a.template_type), TRUE)

\* pySNID.SNID_redshift(fname, template_type, rlap, z_tol, zmin, zmax)
SNID_redshift(a, f, written) ==
    LET ex == exec_SNID([template |-> a.template_type, rlap |-> a.rlap,
                         z_tol |-> a.z_tol, zmin |-> a.zmin, zmax |-> a.zmax],
                        Aged(f), written)
    IN IF ex.raised # "" THEN Outcome(ex, Raises(ex.raised), FALSE)
       ELSE IF ex.output_file = None
       THEN Outcome(ex, Returns(Nones(2)), FALSE)
       ELSE Outcome(ex, SNID_redshift_decide(ex.file.type_results,
                                             ex.file.template_results), TRUE)

\* mutant: the `output_file is None` test left out, so that a missing
\* report is handed to read_output_file, which cannot open it
SNID_age_NoNoneCheck(a, f, written) ==
    LET ex == exec_SNID([z |-> a.z, template |-> a.template_type,
                         rlap |-> a.rlap, z_tol |-> a.z_tol], Aged(f), written)
    IN IF ex.raised # "" THEN Outcome(ex, Raises(ex.raised), FALSE)
       ELSE IF ex.output_file = None
       THEN Outcome(ex, Raises("TypeError"), TRUE)
       ELSE Outcome(ex, SNID_age_decide("pySNID", ex.file.type_results,
                            ex.file.template_results, a.relax_age_restr), TRUE)

\* pySNID.SNID_age(fname, z, template_type, rlap, relax_age_restr, z_tol)
SNID_age(a, f, written) ==
    LET ex == exec_SNID([z |-> a.z, template |-> a.template_type,
                         rlap |-> a.rlap, z_tol |-> a.z_tol], Aged(f), written)
    IN IF ex.raised # "" THEN Outcome(ex, Raises(ex.raised), FALSE)
       ELSE IF ex.output_file = None
       THEN Outcome(ex, Returns(Nones(2)), FALSE)
       ELSE Outcome(ex, SNID_age_decide("pySNID", ex.file.type_results,
                            ex.file.template_results, a.relax_age_restr), TRUE)

\* os.system(snid_command) of BSNIP_SNID: nothing is deleted beforehand
os_system(cmd, before, written) ==
    [raised |-> "", cmd |-> cmd, launched |-> TRUE, wrote |-> written.exists,
     file |-> AfterRun(before, written)]

\* BSNIP_SNID.SNID_type(fname, path, z_host, rlap, z_tol)
BSNIP_type(a, f, written) ==
    LET forcez_arg == z_arg(a.z)
        ztol_arg == Token("zfilter", a.z_tol)
        rlap_arg == Token("rlapmin", a.rlap)
        ex == os_system(<<rlap_arg, forcez_arg, ztol_arg>>, Aged(f), written)
    IN IF ex.file.exists = FALSE
       THEN Outcome(ex, Returns(Nones(1)), FALSE)
       ELSE Outcome(ex, BSNIP_type_decide(ex.file.type_results,
                                          ex.file.template_results), TRUE)

\* BSNIP_SNID.SNID_subtype(fname, path, z_host, rlap, z_tol, template_type)
BSNIP_subtype(a, f, written) ==
    LET forcez_arg == z_arg(a.z)
        ztol_arg == Token("zfilter", a.z_tol)
        rlap_arg == Token("rlapmin", a.rlap)
        template_arg == Token("usetype", a.template_type)
        ex == os_system(<<rlap_arg, forcez_arg, ztol_arg, template_arg>>,
                        Aged(f), written)
    IN IF ex.file.exists = FALSE
       THEN Outcome(ex, Returns(Nones(1)), FALSE)
       ELSE Outcome(ex, SNID_subtype_decide(ex.file.type_results,
                            ex.file.template_results, a.template_type), TRUE)

\* BSNIP_SNID.SNID_redshift(fname, path, template_type)
BSNIP_redshift(a, f, written) ==
    LET template_arg == Token("usetype", a.template_type)
        ex == os_system(<<template_arg>>, Aged(f), written)
    IN IF ex.file.exists = FALSE
       THEN Outcome(ex, Returns(Nones(2)), FALSE)
       ELSE Outcome(ex, SNID_redshift_decide(ex.file.type_results,
                                             ex.file.template_results), TRUE)

\* BSNIP_SNID.SNID_age(fname, path, z, z_tol, template_type, relax_age_restr)
BSNIP_age(a, f, written) ==
    LET forcez_arg == z_arg(a.z)
        ztol_arg == Token("zfilter", a.z_tol)
        template_arg == Token("usetype", a.template_type)
        ex == os_system(<<forcez_arg, ztol_arg, template_arg>>,
                        Aged(f), written)
    IN IF ex.file.exists = FALSE
       THEN Outcome(ex, Returns(Nones(2)), FALSE)
       ELSE Outcome(ex, SNID_age_decide("BSNID", ex.file.type_results,
                            ex.file.template_results, a.relax_age_restr), TRUE)

-----------------------------------------------------------------------------
(* Pipeline orchestrator: pySNID.pySNID and BSNIP_SNID.BSNID *)

\* rlaps = (10, 5)
rlaps == <<PyInt(10), PyInt(5)>>

\* zd_zmin = 0.0, zd_zmax = 0.5
zd_zmin == PyFloat(0)
zd_zmax == PyFloat(100)

\* the reports SNID may write during a pipeline run: the type Ia listed
\* first, then possibly its subtype; a best template that is good or bad,
\* of the subtype or of another type, alone or with a second good template
\* at another redshift and age
PipeTypeTables ==
    { t \in TypeTablesOver(TypeRowsOver({Ia, IaNorm}, {4, 6}), MaxTypeRows) :
        t[1].type = Ia }
TemplRow(type, grade, zz, age) ==
    [type |-> type, grade |-> grade, rlap |-> 20, z |-> zz, age |-> age]
PipeTemplTables ==
    { <<TemplRow(IaNorm, "good", 2, 10)>>,
      <<TemplRow(IaNorm, "bad", 2, 10)>>,
      <<TemplRow(IaNorm, "good", 2, 0), TemplRow(IaNorm, "good", 4, 10)>>,
      <<TemplRow(IbNorm, "good", 2, 10)>> }
PipeReports ==
    { Report(tt, tpl) : tt \in PipeTypeTables, tpl \in PipeTemplTables }

NoResults ==
    [SN_type |-> None, best_templ |-> None, good_num |-> None,
     SN_subtype |-> None, z_snid |-> None, z_snid_error |-> None,
     age |-> None, age_error |-> None]

\* one entry of the log of stage evaluator calls
Call(stage, a, o) ==
    [stage |-> stage, args |-> a, cmd |-> o.cmd, launched |-> o.launched,
     wrote |-> o.wrote, parsed |-> o.parsed, stale_read |-> o.stale_read, raised |-> o.raised,
     value |-> o.value]

Init ==
    /\ variant \in {"pySNID", "BSNID"}
    /\ z \in ZInputs
    /\ relax_age_restr \in BOOLEAN
    /\ pc = "type_strict"
    /\ file = NoFile
    /\ calls = << >>
    /\ res = NoResults
    /\ raised = ""

\* a stage evaluator call made by the orchestrator: log it, keep the file it
\* left, and either propagate its exception or go on with its value
Invoke(stage, a, o, newres, nextpc) ==
    /\ file' = o.file
    /\ calls' = Append(calls, Call(stage, a, o))
    /\ IF o.raised # ""
       THEN /\ raised' = o.raised
            /\ pc' = "raised"
            /\ res' = res
       ELSE /\ raised' = raised
            /\ pc' = nextpc
            /\ res' = newres

TypeArgs(rlap) ==
    IF variant = "pySNID"
    THEN [z |-> z, rlap |-> rlap, z_tol |-> Z_TOL, zmin |-> zd_zmin,
          zmax |-> zd_zmax]
    ELSE [z |-> z, rlap |-> rlap, z_tol |-> Z_TOL]

TypeCall(a, w) ==
    IF variant = "pySNID" THEN SNID_type(a, file, w) ELSE BSNIP_type(a, file, w)

TypeResult(o) ==
    IF variant = "pySNID"
    THEN [res EXCEPT !.SN_type = o.value[1], !.best_templ = o.value[2],
                     !.good_num = o.value[3]]
    ELSE [res EXCEPT !.SN_type = o.value[1]]

\* mutants of the branch conditions below
AfterTypeLoose_NoEarlyExit(SN_type) == "subtype_strict"

AfterSubtypeStrict_AlwaysRetry(SN_subtype) == "subtype_loose"

AfterSubtypeLoose_NoFallback(SN_subtype) ==
    IF SN_subtype # None THEN "redshift_subtype" ELSE "return"

AfterRedshiftSubtype_AlwaysAge(z_snid, z_snid_error) == "age"

AfterRedshiftSubtype_FallbackToType(z_snid, z_snid_error) ==
    IF z_snid # None /\ z_snid_error # None THEN "age" ELSE "redshift_type"

\* line 229 / 277: if SN_type is None, try again, else go on to the subtype
AfterTypeStrict(SN_type) ==
    IF SN_type = None THEN "type_loose" ELSE "subtype_strict"

\* line 233 / 281: if SN_type is not None, try the subtype, else return
AfterTypeLoose(SN_type) ==
    IF SN_type # None THEN "subtype_strict" ELSE "return"

\* line 237 / 285: if SN_subtype is None, try again, else try the redshift
AfterSubtypeStrict(SN_subtype) ==
    IF SN_subtype = None THEN "subtype_loose" ELSE "redshift_subtype"

\* lines 241, 256 / 289, 304: redshift by subtype if found, else by type
AfterSubtypeLoose(SN_subtype) ==
    IF SN_subtype # None THEN "redshift_subtype" ELSE "redshift_type"

\* line 245 / 293: the age is tried only with a redshift and its error
AfterRedshiftSubtype(z_snid, z_snid_error) ==
    IF z_snid # None /\ z_snid_error # None THEN "age" ELSE "return"

\* run SNID_type with higher rlap value
TypeStrict ==
    /\ pc = "type_strict"
    /\ \E w \in PipeReports \cup {NoFile} :
          LET a == TypeArgs(rlaps[1])
              o == TypeCall(a, w)
          IN Invoke("type", a, o, TypeResult(o),
                    AfterTypeStrict(o.value[1]))
    /\ UNCHANGED <<variant, z, relax_age_restr>>

\* if type isn't found, try again with lower rlap value
TypeLoose ==
    /\ pc = "type_loose"
    /\ \E w \in PipeReports \cup {NoFile} :
          LET a == TypeArgs(rlaps[2])
              o == TypeCall(a, w)
          IN Invoke("type", a, o, TypeResult(o),
                    AfterTypeLoose(o.value[1]))
    /\ UNCHANGED <<variant, z, relax_age_restr>>

SubtypeArgs(rlap) ==
    IF variant = "pySNID"
    THEN [z |-> z, template_type |-> res.SN_type, rlap |-> rlap,
          z_tol |-> Z_TOL, zmin |-> zd_zmin, zmax |-> zd_zmax]
    ELSE [z |-> z, rlap |-> rlap, z_tol |-> Z_TOL,
          template_type |-> res.SN_type]

SubtypeCall(a, w) ==
    IF variant = "pySNID" THEN SNID_subtype(a, file, w)
    ELSE BSNIP_subtype(a, file, w)

\* if type found, try to find subtype (with higher rlap first)
SubtypeStrict ==
    /\ pc = "subtype_strict"
    /\ \E w \in PipeReports \cup {NoFile} :
          LET a == SubtypeArgs(rlaps[1])
              o == SubtypeCall(a, w)
          IN Invoke("subtype", a, o, [res EXCEPT !.SN_subtype = o.value[1]],
                    AfterSubtypeStrict(o.value[1]))
    /\ UNCHANGED <<variant, z, relax_age_restr>>

\* if subtype isn't found, try again with lower rlap value
SubtypeLoose ==
    /\ pc = "subtype_loose"
    /\ \E w \in PipeReports \cup {NoFile} :
          LET a == SubtypeArgs(rlaps[2])
              o == SubtypeCall(a, w)
          IN Invoke("subtype", a, o, [res EXCEPT !.SN_subtype = o.value[1]],
                    AfterSubtypeLoose(o.value[1]))
    /\ UNCHANGED <<variant, z, relax_age_restr>>

\* mutant: the redshift run left unrestricted
RedshiftArgs_AllTemplates(template_type) ==
    IF variant = "pySNID"
    THEN [template_type |-> ALL, rlap |-> DEFAULT, z_tol |-> Z_TOL,
          zmin |-> zd_zmin, zmax |-> zd_zmax]
    ELSE [template_type |-> ALL]

RedshiftArgs(template_type) ==
    IF variant = "pySNID"
    THEN [template_type |-> template_type, rlap |-> DEFAULT, z_tol |-> Z_TOL,
          zmin |-> zd_zmin, zmax |-> zd_zmax]
    ELSE [template_type |-> template_type]

RedshiftCall(a, w) ==
    IF variant = "pySNID" THEN SNID_redshift(a, file, w)
    ELSE BSNIP_redshift(a, file, w)

\* if subtype found (then guaranteed that type is found), try to find redshift
RedshiftSubtype ==
    /\ pc = "redshift_subtype"
    /\ \E w \in PipeReports \cup {NoFile} :
          LET a == RedshiftArgs(res.SN_subtype)
              o == RedshiftCall(a, w)
          IN Invoke("redshift", a, o,
                    [res EXCEPT !.z_snid = o.value[1],
                                !.z_snid_error = o.value[2]],
                    AfterRedshiftSubtype(o.value[1], o.value[2]))
    /\ UNCHANGED <<variant, z, relax_age_restr>>

\* the redshift handed to SNID_age: the caller's if float or int, else SNID's
AgeRedshift ==
    IF TypeOf(z) = TypeOf(PyFloat(0)) \/ TypeOf(z) = TypeOf(PyInt(0))
    THEN z
    ELSE res.z_snid

AgeArgs ==
    IF variant = "pySNID"
    THEN [z |-> AgeRedshift, template_type |-> res.SN_subtype,
          rlap |-> DEFAULT, relax_age_restr |-> relax_age_restr,
          z_tol |-> Z_TOL]
    ELSE [z |-> AgeRedshift, z_tol |-> Z_TOL,
          template_type |-> res.SN_subtype,
          relax_age_restr |-> relax_age_restr]

AgeCall(a, w) ==
    IF variant = "pySNID" THEN SNID_age(a, file, w) ELSE BSNIP_age(a, file, w)

\* if snid redshift and subtype found, try to find age
Age ==
    /\ pc = "age"
    /\ \E w \in PipeReports \cup {NoFile} :
          LET a == AgeArgs
              o == AgeCall(a, w)
          IN Invoke("age", a, o,
                    [res EXCEPT !.age = o.value[1], !.age_error = o.value[2]],
                    "return")
    /\ z' = IF variant = "pySNID" THEN AgeRedshift ELSE z
    /\ UNCHANGED <<variant, relax_age_restr>>

\* if subtype not found try for redshifts
RedshiftType ==
    /\ pc = "redshift_type"
    /\ \E w \in PipeReports \cup {NoFile} :
          LET a == RedshiftArgs(res.SN_type)
              o == RedshiftCall(a, w)
          IN Invoke("redshift", a, o,
                    [res EXCEPT !.z_snid = o.value[1],
                                !.z_snid_error = o.value[2]],
                    "return")
    /\ UNCHANGED <<variant, z, relax_age_restr>>

\* return calculated quantities
Return ==
    /\ pc = "return"
    /\ pc' = "done"
    /\ UNCHANGED <<variant, z, relax_age_restr, file, calls, res, raised>>

Next ==
    \/ TypeStrict
    \/ TypeLoose
    \/ SubtypeStrict
    \/ SubtypeLoose
    \/ RedshiftSubtype
    \/ Age
    \/ RedshiftType
    \/ Return

Spec == Init /\ [][Next]_vars

-----------------------------------------------------------------------------
(* Properties of the pipeline *)

CallsOf(stage) == { i \in DOMAIN calls : calls[i].stage = stage }

\* the call returned (did not raise) and its first value is None
Undetermined(c) == c.raised = "" /\ c.value[1] = None

Ended == pc \in {"return", "done"}

\* both Type attempts of this run came back undetermined
TypeUndeterminedTwice ==
    /\ Cardinality(CallsOf("type")) = 2
    /\ \A i \in CallsOf("type") : Undetermined(calls[i])

\* both Subtype attempts of this run came back undetermined
SubtypeUndeterminedTwice ==
    /\ Cardinality(CallsOf("subtype")) = 2
    /\ \A i \in CallsOf("subtype") : Undetermined(calls[i])

\* C1: when the Type stage is undetermined at rlaps[0] and at rlaps[1], the
\* run is over with every result field None, and the run has called no
\* Subtype, Redshift or Age stage.
C1_TypeUndeterminedEndsRun ==
    TypeUndeterminedTwice =>
        /\ Ended
        /\ res = NoResults
        /\ \A i \in DOMAIN calls : calls[i].stage = "type"

C1_Witness ==
    /\ pc = "done"
    /\ TypeUndeterminedTwice
    /\ calls[1].launched /\ calls[2].launched
    /\ calls[1].args.rlap = rlaps[1] /\ calls[2].args.rlap = rlaps[2]

\* C2: when the Type stage is determined and the Subtype stage is
\* undetermined at both thresholds, the finished run has called the Redshift
\* stage exactly once, restricted to the found type, has not called the Age
\* stage, and returns (type, None, z, zerr, None, None) with z, zerr the
\* values of that Redshift call.
C2_SubtypeUndeterminedRedshiftByType ==
    (Ended /\ res.SN_type # None /\ SubtypeUndeterminedTwice) =>
        /\ Cardinality(CallsOf("redshift")) = 1
        /\ \A i \in CallsOf("redshift") :
              /\ calls[i].args.template_type = res.SN_type
              /\ calls[i].launched
              /\ HasToken(calls[i].cmd, "usetype")
              /\ TokenArg(calls[i].cmd, "usetype") = res.SN_type
              /\ res.z_snid = calls[i].value[1]
              /\ res.z_snid_error = calls[i].value[2]
        /\ CallsOf("age") = {}
        /\ res.SN_subtype = None
        /\ res.age = None
        /\ res.age_error = None

C2_Witness ==
    /\ pc = "done"
    /\ res.SN_type = PyStr(Ia)
    /\ SubtypeUndeterminedTwice
    /\ res.z_snid # None
    /\ res.z_snid_error # None

\* C3: in every returned result, subtype is set only if type is; redshift
\* and its error only if type is; age and its error only if subtype,
\* redshift and redshift error all are.
C3_ResultFieldsDependent ==
    Ended =>
        /\ res.SN_subtype # None => res.SN_type # None
        /\ res.z_snid # None => res.SN_type # None
        /\ res.z_snid_error # None => res.SN_type # None
        /\ (res.age # None \/ res.age_error # None) =>
              /\ res.SN_subtype # None
              /\ res.z_snid # None
              /\ res.z_snid_error # None

C3_Witness ==
    /\ pc = "done"
    /\ res.SN_type # None
    /\ res.SN_subtype # None
    /\ res.z_snid # None
    /\ res.age # None
    /\ res.age_error # None

StageRank(stage) ==
    CASE stage = "type" -> 1
      [] stage = "subtype" -> 2
      [] stage = "redshift" -> 3
      [] stage = "age" -> 4

\* the calls of a stage are at most two: strict first, then loose, the
\* second only after the first came back undetermined
StrictThenLoose(stage) ==
    LET idx == CallsOf(stage)
    IN /\ Cardinality(idx) <= 2
       /\ \A i \in idx :
             IF \E j \in idx : j < i
             THEN /\ calls[i].args.rlap = rlaps[2]
                  /\ \A j \in idx : j < i => Undetermined(calls[j])
             ELSE calls[i].args.rlap = rlaps[1]

\* C4: in one run the Type and Subtype stages are each called at most twice,
\* strict threshold first and loose threshold only after an undetermined
\* first call; Redshift and Age at most once each; at most six calls in
\* all; and no stage is called after a later stage has been called.
C4_AtMostTwoAttemptsPerStage ==
    /\ StrictThenLoose("type")
    /\ StrictThenLoose("subtype")
    /\ Cardinality(CallsOf("redshift")) <= 1
    /\ Cardinality(CallsOf("age")) <= 1
    /\ Len(calls) <= 6
    /\ Cardinality({ i \in DOMAIN calls : calls[i].launched }) <= 6
    /\ \A i, j \in DOMAIN calls :
          i < j => StageRank(calls[i].stage) <= StageRank(calls[j].stage)

C4_Witness ==
    /\ pc = "done"
    /\ Len(calls) = 6
    /\ \A i \in DOMAIN calls : calls[i].launched

-----------------------------------------------------------------------------
(* A caller that uses the stage evaluators and exec_SNID directly, any     *)
(* number of times on one spectrum; `calls` holds the latest call only     *)

\* (zmin, zmax) as a caller may supply them: neither, one, both
BoundsInputs ==
    { <<None, None>>, <<PyFloat(0), None>>, <<PyFloat(0), PyFloat(100)>> }

\* what a directly called SNID run may write: nothing, or a report
CallTypeTable ==
    << [type |-> Ia, ntemp |-> 3, fraction |-> 6],
       [type |-> IaNorm, ntemp |-> 3, fraction |-> 6] >>
CallReports == { Report(CallTypeTable, tpl) : tpl \in PipeTemplTables }
CallWritten == CallReports \cup {NoFile}

InitCalls ==
    /\ variant \in {"pySNID", "BSNID"}
    /\ z = None
    /\ relax_age_restr = FALSE
    /\ pc = "caller"
    /\ file = NoFile
    /\ calls = << >>
    /\ res = NoResults
    /\ raised = ""

Called(stage, a, o) ==
    /\ file' = o.file
    /\ calls' = <<Call(stage, a, o)>>
    /\ UNCHANGED <<variant, z, relax_age_restr, pc, res, raised>>

\* SNID_type(fname, z, rlap = 10, zmin, zmax) / SNID_type(fname, path, z_host, rlap, z_tol)
CallType ==
    /\ pc = "caller"
    /\ \E zz \in ZInputs, b \in BoundsInputs, w \in CallWritten :
          LET a == IF variant = "pySNID"
                   THEN [z |-> zz, rlap |-> PyInt(10), z_tol |-> Z_TOL,
                         zmin |-> b[1], zmax |-> b[2]]
                   ELSE [z |-> zz, rlap |-> PyInt(10), z_tol |-> Z_TOL]
          IN Called("type", a, TypeCall(a, w))

\* SNID_subtype(..., template_type = 'Ia', ...)
CallSubtype ==
    /\ pc = "caller"
    /\ \E zz \in ZInputs, b \in BoundsInputs, w \in CallWritten :
          LET a == IF variant = "pySNID"
                   THEN [z |-> zz, template_type |-> PyStr(Ia),
                         rlap |-> PyInt(10), z_tol |-> Z_TOL, zmin |-> b[1],
                         zmax |-> b[2]]
                   ELSE [z |-> zz, rlap |-> PyInt(10), z_tol |-> Z_TOL,
                         template_type |-> PyStr(Ia)]
          IN Called("subtype", a, SubtypeCall(a, w))

\* SNID_redshift(..., template_type = 'Ia-norm', ...)
CallRedshift ==
    /\ pc = "caller"
    /\ \E b \in BoundsInputs, w \in CallWritten :
          LET a == IF variant = "pySNID"
                   THEN [template_type |-> PyStr(IaNorm), rlap |-> DEFAULT,
                         z_tol |-> Z_TOL, zmin |-> b[1], zmax |-> b[2]]
                   ELSE [template_type |-> PyStr(IaNorm)]
          IN Called("redshift", a, RedshiftCall(a, w))

\* SNID_age(fname, z, template_type = 'Ia-norm', relax_age_restr)
CallAge ==
    /\ pc = "caller"
    /\ \E zz \in ZInputs, relax \in BOOLEAN, w \in CallWritten :
          LET a == IF variant = "pySNID"
                   THEN [z |-> zz, template_type |-> PyStr(IaNorm),
                         rlap |-> DEFAULT, relax_age_restr |-> relax,
                         z_tol |-> Z_TOL]
                   ELSE [z |-> zz, z_tol |-> Z_TOL,
                         template_type |-> PyStr(IaNorm),
                         relax_age_restr |-> relax]
          IN Called("age", a, AgeCall(a, w))

\* pySNID.exec_SNID(fname, z, template, rlap)
CallExec ==
    /\ pc = "caller"
    /\ variant = "pySNID"
    /\ \E zz \in ZInputs, t \in {ALL, PyStr(Ia)}, r \in {DEFAULT, PyInt(10)},
          w \in CallWritten :
          LET a == [z |-> zz, template |-> t, rlap |-> r]
              ex == exec_SNID(a, Aged(file), w)
          IN Called("exec", a, Outcome(ex, Returns(<<ex.output_file>>), FALSE))

NextCalls ==
    \/ CallType
    \/ CallSubtype
    \/ CallRedshift
    \/ CallAge
    \/ CallExec

SpecCalls == InitCalls /\ [][NextCalls]_vars

-----------------------------------------------------------------------------
(* Properties of the process runner and the argument formatter *)

\* C5: a report that a stage evaluator parses was written by the SNID run
\* of that same call, never left over from an earlier call; and a call
\* whose SNID run writes no report parses nothing and returns None values.
C5_NoStaleReportRead ==
    \A i \in DOMAIN calls :
        /\ calls[i].parsed => (calls[i].wrote /\ ~ calls[i].stale_read)
        /\ (calls[i].launched /\ ~ calls[i].wrote) =>
              /\ ~ calls[i].parsed
              /\ calls[i].raised = ""
              /\ \A k \in DOMAIN calls[i].value : calls[i].value[k] = None

LastCall == calls[Len(calls)]

\* C7: when the SNID run of a call ends with no report file in place,
\* exec_SNID returns None and the stage evaluator returns None values,
\* without raising and without calling read_output_file.
C7_NoReportIsUndetermined ==
    (calls # << >> /\ LastCall.launched /\ ~ file.exists) =>
        /\ LastCall.raised = ""
        /\ ~ LastCall.parsed
        /\ LastCall.value # << >>
        /\ \A k \in DOMAIN LastCall.value : LastCall.value[k] = None

C7_Witness ==
    /\ variant = "pySNID"
    /\ calls # << >>
    /\ LastCall.stage = "age"
    /\ LastCall.launched
    /\ ~ file.exists
    /\ LastCall.value = <<None, None>>

IsRealNumber(v) == v.ty = "int" \/ (v.ty = "float" /\ ~ isnan(v))

\* C8: the command carries forcez=<z> exactly when the redshift passed in
\* is an int or a float that is not NaN; for NaN, None and strings it
\* carries no forcez token.
C8_ForcezIffRealNumber ==
    \A i \in DOMAIN calls :
        (calls[i].launched /\ "z" \in DOMAIN calls[i].args) =>
            /\ HasToken(calls[i].cmd, "forcez") <=>
                  IsRealNumber(calls[i].args.z)
            /\ HasToken(calls[i].cmd, "forcez") =>
                  TokenArg(calls[i].cmd, "forcez") = calls[i].args.z

BothBounds(a) == a.zmin # None /\ a.zmax # None

HasBoundsToken(cmd) == HasToken(cmd, "zmin") \/ HasToken(cmd, "zmax")

\* C9: a stage evaluator call given both zmin and zmax launches SNID with
\* the redshift-bounds tokens in its command, and a call given fewer than
\* both launches SNID with a command that has no bounds token.
C9_BoundsTokensIffBothSupplied ==
    \A i \in DOMAIN calls :
        "zmin" \in DOMAIN calls[i].args =>
            /\ calls[i].launched
            /\ HasBoundsToken(calls[i].cmd) <=> BothBounds(calls[i].args)

-----------------------------------------------------------------------------
(* The stage evaluators' decisions applied to a parsed report: `file` is   *)
(* the report that read_output_file returned the tables of, and `calls`    *)
(* holds the latest decision                                               *)

EvalTypeTables ==
    TypeTablesOver(TypeRowsOver({Ia, Ib, IaNorm, AGN}, {4, 5, 6}),
                   MaxTypeRows)
EvalTemplTables ==
    TemplTablesOver(TemplRowsOver({IaNorm, Ib, AGN}, {20}, {2}, {10}),
                    MaxTemplRows)
EvalReports ==
    { Report(tt, tpl) : tt \in EvalTypeTables, tpl \in EvalTemplTables }

InitEval ==
    /\ variant \in {"pySNID", "BSNID"}
    /\ z = None
    /\ relax_age_restr = FALSE
    /\ pc = "parsed"
    /\ file \in EvalReports
    /\ calls = << >>
    /\ res = NoResults
    /\ raised = ""

\* the report is on disk and parsed; only the decision is taken
Decided(stage, a, d) ==
    /\ calls' = <<Call(stage, a,
                       Outcome([cmd |-> << >>, launched |-> FALSE,
                                wrote |-> FALSE, file |-> file], d, TRUE))>>
    /\ pc' = "decided"
    /\ UNCHANGED <<variant, z, relax_age_restr, file, res, raised>>

DecideType ==
    /\ pc = "parsed"
    /\ Decided("type", << >>,
               IF variant = "pySNID"
               THEN SNID_type_decide(file.type_results, file.template_results)
               ELSE BSNIP_type_decide(file.type_results,
                                      file.template_results))

DecideSubtype ==
    /\ pc = "parsed"
    /\ \E T \in {Ia, Ib} :
          Decided("subtype", [template_type |-> PyStr(T)],
                  SNID_subtype_decide(file.type_results,
                                      file.template_results, PyStr(T)))

DecideRedshift ==
    /\ pc = "parsed"
    /\ Decided("redshift", << >>,
               SNID_redshift_decide(file.type_results, file.template_results))

DecideAge ==
    /\ pc = "parsed"
    /\ \E relax \in BOOLEAN :
          Decided("age", [relax_age_restr |-> relax],
                  SNID_age_decide(variant, file.type_results,
                                  file.template_results, relax))

NextEval ==
    \/ DecideType
    \/ DecideSubtype
    \/ DecideRedshift
    \/ DecideAge

SpecEval == InitEval /\ [][NextEval]_vars

-----------------------------------------------------------------------------
(* Properties of the stage evaluators' decisions *)

NoGoodRows == Len(GoodRows(file.template_results)) = 0

\* C6: when the parsed TemplateTable has no row graded "good", the Type,
\* Subtype and Age evaluators return None values and raise nothing.
C6_NoGoodRowsIsUndetermined ==
    (/\ calls # << >>
     /\ LastCall.stage \in {"type", "subtype", "age"}
     /\ LastCall.parsed
     /\ NoGoodRows) =>
        /\ LastCall.raised = ""
        /\ LastCall.value # << >>
        /\ \A k \in DOMAIN LastCall.value : LastCall.value[k] = None

\* the best-template type as the Type stage is specified to take it: the
\* type label of the first "good" row, cut to two characters unless it is
\* one of the non-supernova labels
BestTemplateType(template_results) ==
    LET label == GoodRows(template_results)[1].type
    IN IF label \in NonSNLabels THEN label ELSE SubSeq(label, 1, 2)

\* the labels of the TypeTable rows that hold the maximum fraction
TopLabels(type_results) ==
    { type_results[i].type : i \in
        { j \in DOMAIN type_results :
            \A k \in DOMAIN type_results :
                type_results[j].fraction >= type_results[k].fraction } }

TopFraction(type_results) ==
    CHOOSE f \in { type_results[i].fraction : i \in DOMAIN type_results } :
        \A k \in DOMAIN type_results : f >= type_results[k].fraction

\* C10: on a parsed report with a "good" template, the Type stage returns a
\* label only if it is the label of a maximum-fraction row, that fraction
\* is >= 0.5 and the label equals the best-template type; it returns that
\* label whenever the maximum-fraction label is unique and meets both
\* conditions; and it returns None otherwise, raising nothing.
C10_TypeAcceptance ==
    (/\ calls # << >>
     /\ LastCall.stage = "type"
     /\ LastCall.parsed
     /\ ~ NoGoodRows) =>
        LET top == TopLabels(file.type_results)
            frac == TopFraction(file.type_results)
            best == BestTemplateType(file.template_results)
        IN /\ LastCall.raised = ""
           /\ LastCall.value[1] # None =>
                 /\ frac >= 5
                 /\ LastCall.value[1].s \in top
                 /\ LastCall.value[1].s = best
           /\ (frac >= 5 /\ top = {best}) => LastCall.value[1] = PyStr(best)

\* the TypeTable rows whose label differs from the forced type T
RowsOtherThan(type_results, T) ==
    SelectSeq(type_results, LAMBDA r : PyStr(r.type) # T)

\* C11: on a parsed report and a forced type T, the Subtype stage raises
\* nothing; it returns a label only if that label is the label of a
\* maximum-fraction row among the TypeTable rows other than T, that
\* fraction is >= 0.5 and the label equals, untruncated, the type label of
\* the first "good" TemplateTable row; it returns that label whenever the
\* maximum-fraction label among those rows is unique and meets both
\* conditions; and it returns None otherwise.
C11_SubtypeAcceptance ==
    (/\ calls # << >>
     /\ LastCall.stage = "subtype"
     /\ LastCall.parsed) =>
        LET others == RowsOtherThan(file.type_results,
                                    LastCall.args.template_type)
            good == GoodRows(file.template_results)
        IN /\ LastCall.raised = ""
           /\ LastCall.value[1] # None =>
                 /\ Len(others) > 0
                 /\ Len(good) > 0
                 /\ TopFraction(others) >= 5
                 /\ LastCall.value[1].s \in TopLabels(others)
                 /\ LastCall.value[1].s = good[1].type
           /\ (/\ Len(others) > 0
               /\ Len(good) > 0
               /\ TopFraction(others) >= 5
               /\ TopLabels(others) = {good[1].type}) =>
                 LastCall.value[1] = PyStr(good[1].type)

-----------------------------------------------------------------------------
(* The Redshift and Age evaluators' decisions applied to a parsed report   *)
(* whose template rows differ in grade and redshift, or in grade, rlap and *)
(* age                                                                     *)

MaxMeasRows == 3

\* rows of one subtype that differ in grade and redshift
ZRows == TemplRowsOver({IaNorm}, {20}, {2, 4, 8}, {10})

\* rows of one subtype that differ in grade, rlap and age (in days, before
\* or after maximum light)
AgeRows == TemplRowsOver({IaNorm}, {100, 75, 74}, {2}, {10, 40, 50, -40, -50})

\* four good templates with rlap 100, 95, 90, 20 and age 10, 12, 11, 50
FourAgesTable ==
    << [type |-> IaNorm, grade |-> "good", rlap |-> 100, z |-> 2, age |-> 10],
       [type |-> IaNorm, grade |-> "good", rlap |-> 95, z |-> 2, age |-> 12],
       [type |-> IaNorm, grade |-> "good", rlap |-> 90, z |-> 2, age |-> 11],
       [type |-> IaNorm, grade |-> "good", rlap |-> 20, z |-> 2, age |-> 50] >>

MeasTemplTables ==
    TemplTablesOver(ZRows, MaxMeasRows)
        \cup TemplTablesOver(AgeRows, MaxMeasRows)
        \cup {FourAgesTable}

MeasReports == { Report(CallTypeTable, tpl) : tpl \in MeasTemplTables }

InitMeasure ==
    /\ variant \in {"pySNID", "BSNID"}
    /\ z = None
    /\ relax_age_restr = FALSE
    /\ pc = "parsed"
    /\ file \in MeasReports
    /\ calls = << >>
    /\ res = NoResults
    /\ raised = ""

NextMeasure ==
    \/ DecideRedshift
    \/ DecideAge

SpecMeasure == InitMeasure /\ [][NextMeasure]_vars

-----------------------------------------------------------------------------
(* Properties of the Redshift and Age decisions *)

\* the positions of the TemplateTable rows graded "good"
GoodIdx(t) == { i \in DOMAIN t : t[i].grade = "good" }

\* the k-th smallest of the values x[i], i \in I, counted with repetition
KthSmallest(x, I, k) ==
    CHOOSE v \in { x[i] : i \in I } :
        /\ Cardinality({ i \in I : x[i] < v }) < k
        /\ k <= Cardinality({ i \in I : x[i] <= v })

\* twice the median of the values x[i], i \in I
MedianTwice(x, I) ==
    LET n == Cardinality(I)
    IN KthSmallest(x, I, (n + 1) \div 2) + KthSmallest(x, I, n \div 2 + 1)

RECURSIVE SumOver(_, _)
SumOver(S, f) ==
    IF S = {} THEN 0
    ELSE LET e == CHOOSE e \in S : TRUE IN f[e] + SumOver(S \ {e}, f)

\* n^2 times the population variance of the values x[i], i \in I, as the
\* sum of the squared differences over all pairs
PairSquares(x, I) ==
    LET P == { p \in I \X I : p[1] < p[2] }
    IN SumOver(P, [p \in P |-> (x[p[1]] - x[p[2]]) * (x[p[1]] - x[p[2]])])

\* C12: on a parsed report the Redshift stage raises nothing; with no row
\* graded "good" it returns (None, None); otherwise it returns the median
\* and the standard deviation of the z values of exactly the rows graded
\* "good".
C12_RedshiftOverGoodRows ==
    (/\ calls # << >>
     /\ LastCall.stage = "redshift"
     /\ LastCall.parsed) =>
        LET t == file.template_results
            I == GoodIdx(t)
            zs == [i \in DOMAIN t |-> t[i].z]
        IN /\ LastCall.raised = ""
           /\ IF I = {}
              THEN LastCall.value = <<None, None>>
              ELSE /\ LastCall.value[1] = NpFloat(MedianTwice(zs, I))
                   /\ LastCall.value[2] =
                         NpStd(PairSquares(zs, I), Cardinality(I))

\* a bad row with z = 0.08 between good rows with z = 0.02 and 0.04
C12_Witness ==
    /\ calls # << >>
    /\ LastCall.stage = "redshift"
    /\ Len(file.template_results) = 3
    /\ file.template_results[1].grade = "good"
    /\ file.template_results[1].z = 2
    /\ file.template_results[2].grade = "bad"
    /\ file.template_results[2].z = 8
    /\ file.template_results[3].grade = "good"
    /\ file.template_results[3].z = 4
    /\ LastCall.value = <<NpFloat(6), NpStd(4, 2)>>

\* the position of the first TemplateTable row graded "good"
FirstGood(t) == CHOOSE i \in GoodIdx(t) : \A j \in GoodIdx(t) : i <= j

\* the positions of the rows the Age stage admits: graded "good" and with a
\* quality score of at least 0.75 times that of the first "good" row
Admitted(t) ==
    { i \in GoodIdx(t) : 100 * t[i].rlap >= 75 * t[FirstGood(t)].rlap }

\* the age and its error over the admitted rows
AdmittedAge(t) ==
    LET ages == [i \in DOMAIN t |-> t[i].age]
    IN << NpFloat(MedianTwice(ages, Admitted(t))),
          NpStd(PairSquares(ages, Admitted(t)), Cardinality(Admitted(t))) >>

\* C13: on a parsed report with a "good" row, whatever the Age stage
\* returns as age and error is the median and the standard deviation of
\* the ages of exactly the rows graded "good" whose quality score is at
\* least 0.75 times that of the first "good" row: with the restriction
\* relaxed it returns these two values, otherwise these two or (None, None).
C13_AdmittedAges ==
    (/\ calls # << >>
     /\ LastCall.stage = "age"
     /\ LastCall.parsed
     /\ ~ NoGoodRows) =>
        /\ LastCall.raised = ""
        /\ \/ LastCall.value = AdmittedAge(file.template_results)
           \/ /\ LastCall.args.relax_age_restr = FALSE
              /\ LastCall.value = <<None, None>>

\* ages 10, 12, 11, 50 with rlaps 100, 95, 90, 20: the age is 11
C13_Witness ==
    /\ calls # << >>
    /\ LastCall.stage = "age"
    /\ file.template_results = FourAgesTable
    /\ Admitted(FourAgesTable) = {1, 2, 3}
    /\ LastCall.value = <<NpFloat(22), NpStd(6, 3)>>

\* err < 4 or err < 0.2 * |age|, for age = h / 2 and err^2 = v / n^2
ErrorSmallEnough(a) ==
    LET age2 == IF a[1].h >= 0 THEN a[1].h ELSE - a[1].h
    IN \/ a[2].v < 16 * a[2].n * a[2].n
       \/ 100 * a[2].v < a[2].n * a[2].n * age2 * age2

\* C14: on a parsed report with a "good" row and the relaxation flag unset,
\* the Age stage returns the computed (age, age_error) when age_error < 4
\* or age_error < 0.2 * |age|, and (None, None) otherwise; with the flag set
\* it returns the computed (age, age_error) always.
C14_AgeErrorRule ==
    (/\ calls # << >>
     /\ LastCall.stage = "age"
     /\ LastCall.parsed
     /\ ~ NoGoodRows) =>
        LET a == AdmittedAge(file.template_results)
        IN /\ LastCall.raised = ""
           /\ LastCall.value =
                 IF LastCall.args.relax_age_restr \/ ErrorSmallEnough(a)
                 THEN a
                 ELSE <<None, None>>

-----------------------------------------------------------------------------
(* Report parser: read_output_file on the lines of a report.  A line is    *)
(* the tuple of its whitespace-separated cells once a '#' comment is cut   *)
(* off, and the set of the searched-for strings it contains.               *)

MaxShift == 1
MaxAttempts == 3

\* tp_res_start = 39
TP_RES_START == 39

LISTING == <<"### rlap-ordered template listings ###">>
CUTOFF == <<"#--- rlap cutoff">>

tp_col_names ==
    << "type", "ntemp", "fraction", "slope", "redshift", "redshift_error",
       "age", "age_error" >>

rlap_col_names ==
    << "no.", "sn", "type", "lap", "rlap", "z", "zerr", "age", "age_flag",
       "grade" >>

\* '#' + ' '.join(tp_col_names), as the words joined
TP_HEADER == <<"#">> \o tp_col_names

Line(cells, has) == [cells |-> cells, has |-> has]
Blank == Line(<< >>, {})
Comment(has) == Line(<< >>, has)
TextLine == Line(<<"w", "w">>, {})

\* a type row as SNID prints it, and one that lacks its last cell
TypeLine(r) == Line(<<r.type, r.ntemp, r.fraction, 0, 0, 0, 0, 0>>, {})
ShortTypeLine(r) == Line(<<r.type, r.ntemp, r.fraction, 0, 0, 0, 0>>, {})

\* the i-th template row as SNID prints it
TemplLine(i, r) ==
    Line(<<i, "sn", r.type, 0, r.rlap, r.z, 0, r.age, 0, r.grade>>, {})

\* the lines of a report: a preamble, the title and column header of the
\* type section, the type rows, five lines up to the listing marker, the
\* column header of the template section, the template rows, the cutoff
\* marker, and `tail` template rows below the cutoff.  `shift` moves the
\* type section from its usual place, `short` is the position of a type
\* row that lacks a cell (0 for none), and `marks` are the searched-for
\* strings that the report contains.
ReportLines(shift, tt, short, tpl, tail, marks) ==
    [i \in 1..(TP_RES_START - 2 + shift) |-> TextLine]
    \o << Comment({}), Comment({TP_HEADER} \cap marks) >>
    \o [i \in DOMAIN tt |->
           IF i = short THEN ShortTypeLine(tt[i]) ELSE TypeLine(tt[i])]
    \o << Blank, Comment({}), Comment({}), Comment({}), Blank >>
    \o << Comment({LISTING} \cap marks), Comment({}) >>
    \o [i \in DOMAIN tpl |-> TemplLine(i, tpl[i])]
    \o << Comment({CUTOFF} \cap marks) >>
    \o [i \in 1..tail |-> TemplLine(Len(tpl) + i, tpl[1])]

\* numpy.ndarray
NdArray(rows) == [ty |-> "numpy.ndarray", rows |-> rows]

IntOf(v) == v.h \div 2

\* mutant: the count of lines returned when the string is not found
_it_line_locate_NoNotFound(fl, sstring) ==
    LET hits == { i \in DOMAIN fl : sstring \in fl[i].has }
    IN IF hits = {} THEN PyInt(Len(fl))
       ELSE PyInt((CHOOSE i \in hits : \A j \in hits : i <= j) - 1)

\* _it_line_locate / it_line_locate: the number of lines before the first
\* line that contains sstring, or None
_it_line_locate(fl, sstring) ==
    LET hits == { i \in DOMAIN fl : sstring \in fl[i].has }
    IN IF hits = {} THEN None
       ELSE PyInt((CHOOSE i \in hits : \A j \in hits : i <= j) - 1)

\* the loop of np.genfromtxt over the lines: empty lines are passed over,
\* a line with another number of cells is noted as invalid, and reading
\* stops once max_rows rows are held
RECURSIVE ReadRows(_, _, _, _, _)
ReadRows(ls, nbcols, max_rows, rows, invalid) ==
    IF ls = << >> \/ Len(rows) = max_rows
    THEN [rows |-> rows, invalid |-> invalid]
    ELSE LET values == Head(ls).cells
         IN IF Len(values) = 0
            THEN ReadRows(Tail(ls), nbcols, max_rows, rows, invalid)
            ELSE IF Len(values) # nbcols
            THEN ReadRows(Tail(ls), nbcols, max_rows, rows, invalid + 1)
            ELSE ReadRows(Tail(ls), nbcols, max_rows,
                          Append(rows, values), invalid)

IndexOf(names, f) == CHOOSE i \in DOMAIN names : names[i] = f

\* np.genfromtxt(fl, dtype = None, skip_header, max_rows, names), keeping
\* of each row the columns `fields`
genfromtxt(fl, skip_header, max_rows, names, fields) ==
    IF max_rows < 1 THEN Raises("ValueError")
    ELSE LET rest == SubSeq(fl, skip_header + 1, Len(fl))
             first == SelectSeq(rest, LAMBDA l : Len(l.cells) > 0)
         IN IF first = << >> THEN Returns(NdArray(<< >>))
            ELSE LET rd == ReadRows(rest, Len(first[1].cells), max_rows,
                                    << >>, 0)
                 IN IF rd.invalid > 0 THEN Raises("ValueError")
                    ELSE Returns(NdArray(
                           [i \in DOMAIN rd.rows |->
                              [f \in fields |->
                                 rd.rows[i][IndexOf(names, f)]]]))

TypeFields == {"type", "ntemp", "fraction"}
TemplFields == {"type", "grade", "rlap", "z", "age"}

\* the reports given to the parser
ReadTypeTables ==
    TypeTablesOver(TypeRowsOver({Ia, IaNorm}, {6}), MaxTypeRows)
ReadTemplTables == { SubSeq(t, 1, 1) : t \in PipeTemplTables }
Marks == {LISTING, TP_HEADER, CUTOFF}

ReadReports ==
    { [exists |-> TRUE, stale |-> FALSE, type_results |-> tt,
       template_results |-> tpl, shift |-> shift, short |-> short,
       marks |-> marks,
       lines |-> ReportLines(shift, tt, short, tpl, tail, marks)] :
        shift \in (0 - MaxShift)..MaxShift, tt \in ReadTypeTables,
        short \in 0..1, tpl \in ReadTemplTables, tail \in 0..1,
        marks \in SUBSET Marks }

\* read_output_file's local variables
ReadLocals ==
    [tp_res_start |-> None, max_rows_type |-> None, rlap_res_start |-> None,
     type_results |-> None, template_results |-> None, attempts |-> 0]

InitRead ==
    /\ variant \in {"pySNID", "BSNID"}
    /\ z = None
    /\ relax_age_restr = FALSE
    /\ pc = "read_start"
    /\ file \in ReadReports
    /\ calls = << >>
    /\ res = ReadLocals
    /\ raised = ""

ReadRaise(e) ==
    /\ pc' = "raised"
    /\ raised' = e
    /\ res' = res

\* lines 176-179: the assumed start and the number of type rows
ReadLocate ==
    /\ pc = "read_start"
    /\ LET loc == _it_line_locate(file.lines, LISTING)
       IN IF loc = None THEN ReadRaise("TypeError")
          ELSE /\ res' = [res EXCEPT
                            !.tp_res_start = PyInt(TP_RES_START),
                            !.max_rows_type =
                                PyInt(IntOf(loc) - TP_RES_START - 5)]
               /\ pc' = "read_try"
               /\ raised' = raised
    /\ UNCHANGED <<variant, z, relax_age_restr, file, calls>>

\* lines 184-187: the try block of the loop
ReadTypeSection ==
    /\ pc = "read_try"
    /\ res.attempts < MaxAttempts
    /\ LET r == genfromtxt(file.lines, IntOf(res.tp_res_start),
                           IntOf(res.max_rows_type), tp_col_names,
                           TypeFields)
       IN /\ res' = [res EXCEPT
                       !.attempts = @ + 1,
                       !.type_results =
                           IF r.raised = "" THEN r.value ELSE @]
          /\ pc' = IF r.raised = "" THEN "read_rlap" ELSE "read_except"
    /\ UNCHANGED <<variant, z, relax_age_restr, file, calls, raised>>

\* mutant: the start re-located but the number of rows not recalculated
ReadRectify_RowCountKept ==
    /\ pc = "read_except"
    /\ LET hdr == _it_line_locate(file.lines, TP_HEADER)
       IN IF hdr = None THEN ReadRaise("TypeError")
          ELSE /\ res' = [res EXCEPT !.tp_res_start = PyInt(IntOf(hdr) + 1)]
               /\ pc' = "read_try"
               /\ raised' = raised
    /\ UNCHANGED <<variant, z, relax_age_restr, file, calls>>

\* lines 189-197: the except block of the loop, which goes round again
ReadRectify ==
    /\ pc = "read_except"
    /\ LET hdr == _it_line_locate(file.lines, TP_HEADER)
           loc == _it_line_locate(file.lines, LISTING)
       IN IF hdr = None \/ loc = None THEN ReadRaise("TypeError")
          ELSE /\ res' = [res EXCEPT
                            !.tp_res_start = PyInt(IntOf(hdr) + 1),
                            !.max_rows_type =
                                PyInt(IntOf(loc) - (IntOf(hdr) + 1) - 5)]
               /\ pc' = "read_try"
               /\ raised' = raised
    /\ UNCHANGED <<variant, z, relax_age_restr, file, calls>>

\* lines 199-209: the template section, and the return
ReadTemplSection ==
    /\ pc = "read_rlap"
    /\ LET rlap_res_start ==
               IntOf(res.tp_res_start) + IntOf(res.max_rows_type) + 7
           loc == _it_line_locate(file.lines, CUTOFF)
       IN IF loc = None THEN ReadRaise("TypeError")
          ELSE LET r == genfromtxt(file.lines, rlap_res_start,
                                   IntOf(loc) - rlap_res_start,
                                   rlap_col_names, TemplFields)
               IN IF r.raised # "" THEN ReadRaise(r.raised)
                  ELSE /\ res' = [res EXCEPT
                                    !.rlap_res_start = PyInt(rlap_res_start),
                                    !.template_results = r.value]
                       /\ pc' = "returned"
                       /\ raised' = raised
    /\ UNCHANGED <<variant, z, relax_age_restr, file, calls>>

NextRead ==
    \/ ReadLocate
    \/ ReadTypeSection
    \/ ReadRectify
    \/ ReadTemplSection

SpecRead == InitRead /\ [][NextRead]_vars

-----------------------------------------------------------------------------
(* Properties of the report parser *)

\* C15: the type section is parsed at most twice, once at the assumed
\* offset and once at the re-located one: the except block that re-locates
\* the offset is entered only after the first attempt, and a second
\* failure of the parse ends the call.
C15_AtMostOneRetry ==
    /\ res.attempts <= 2
    /\ pc = "read_except" => res.attempts = 1

\* the report has a line that contains sstring
HasLine(sstring) == \E i \in DOMAIN file.lines : sstring \in file.lines[i].has

\* C16: a report without the listing marker makes the first scan return
\* None and the call raise at once; a report without the cutoff marker, or
\* without the column-header line when the first parse of the type section
\* failed, makes the call raise too; the exception is raised, not returned
\* as a value, and read_output_file returns tables only for a report that
\* has every delimiter line the call needed.
C16_MissingDelimiterRaises ==
    /\ ~ HasLine(LISTING) =>
          /\ _it_line_locate(file.lines, LISTING) = None
          /\ pc \in {"read_start", "raised"}
    /\ ~ HasLine(CUTOFF) =>
          /\ _it_line_locate(file.lines, CUTOFF) = None
          /\ pc # "returned"
    /\ ~ HasLine(TP_HEADER) =>
          /\ _it_line_locate(file.lines, TP_HEADER) = None
          /\ res.attempts <= 1
          /\ pc = "read_try" => res.attempts = 0
    /\ (pc = "raised" /\ Marks # file.marks) =>
          /\ raised = "TypeError"
          /\ res.template_results = None
    /\ pc = "returned" =>
          /\ raised = ""
          /\ HasLine(LISTING)
          /\ HasLine(CUTOFF)
          /\ HasLine(TP_HEADER) \/ res.attempts = 1

\* the first parse failed and the column-header line is not in the report
C16_Witness ==
    /\ pc = "raised"
    /\ raised = "TypeError"
    /\ res.attempts = 1
    /\ res.type_results = None
    /\ ~ HasLine(TP_HEADER)
    /\ HasLine(LISTING)
    /\ HasLine(CUTOFF)

\* the report was built from its two tables with every row whole and every
\* delimiter line in place
BuiltFromTables == file.short = 0 /\ file.marks = Marks

\* C17: for a report built from a TypeTable and a TemplateTable, with the
\* type section at the assumed offset or shifted from it by up to MaxShift
\* lines either way, read_output_file does not raise, parses the type
\* section at most twice, and returns exactly the two tables.
C17_RoundTrip ==
    BuiltFromTables =>
        /\ pc # "raised"
        /\ res.attempts <= 2
        /\ pc = "returned" =>
              /\ res.type_results = NdArray(file.type_results)
              /\ res.template_results = NdArray(file.template_results)

\* the redshift the caller gave to the pipeline
CallerRedshift == calls[1].args.z

\* C18: every Age call of a run launches SNID with a forcez token, whose
\* argument is the caller's redshift when that is an int or a float other
\* than NaN, and the redshift returned by the Redshift stage otherwise.
C18_AgeForcesRedshift ==
    \A i \in CallsOf("age") :
        /\ calls[i].launched
        /\ HasToken(calls[i].cmd, "forcez")
        /\ TokenArg(calls[i].cmd, "forcez") =
              IF IsRealNumber(CallerRedshift)
              THEN CallerRedshift
              ELSE res.z_snid

\* the calls of a stage that came back with a value
DeterminedCalls(stage) ==
    { i \in CallsOf(stage) : calls[i].raised = "" /\ calls[i].value[1] # None }

\* the label a stage accepted in this run
Accepted(stage) ==
    calls[CHOOSE i \in DeterminedCalls(stage) : TRUE].value[1]

\* the command of call i restricts the templates to `label`
RestrictedTo(i, label) ==
    /\ HasToken(calls[i].cmd, "usetype")
    /\ TokenArg(calls[i].cmd, "usetype") = label

\* C19: of the SNID runs of one pipeline run, a Type run carries no
\* usetype token; a Subtype run carries usetype = the type accepted by the
\* Type stage; the Redshift run carries usetype = the accepted subtype when
\* the Subtype stage accepted one and usetype = the accepted type
\* otherwise; and the Age run carries usetype = the accepted subtype.
C19_TemplateThreaded ==
    \A i \in DOMAIN calls :
        calls[i].launched =>
            CASE calls[i].stage = "type" ->
                    ~ HasToken(calls[i].cmd, "usetype")
              [] calls[i].stage = "subtype" ->
                    /\ DeterminedCalls("type") # {}
                    /\ RestrictedTo(i, Accepted("type"))
              [] calls[i].stage = "redshift" ->
                    /\ DeterminedCalls("type") # {}
                    /\ IF DeterminedCalls("subtype") # {}
                       THEN RestrictedTo(i, Accepted("subtype"))
                       ELSE RestrictedTo(i, Accepted("type"))
              [] calls[i].stage = "age" ->
                    /\ DeterminedCalls("subtype") # {}
                    /\ RestrictedTo(i, Accepted("subtype"))

\* a run through all four stages: type Ia, subtype Ia-norm
C19_Witness ==
    /\ pc = "done"
    /\ CallsOf("age") # {}
    /\ \A i \in DOMAIN calls : calls[i].launched
    /\ Accepted("type") = PyStr(Ia)
    /\ Accepted("subtype") = PyStr(IaNorm)
    /\ \A i \in CallsOf("redshift") \cup CallsOf("age") :
          RestrictedTo(i, PyStr(IaNorm))
    /\ \A i \in CallsOf("subtype") : RestrictedTo(i, PyStr(Ia))

\* the table t with its rows in the order p
Reordered(t, p) == [i \in DOMAIN t |-> t[p[i]]]

\* the decision of the latest Type or Subtype call, taken on the TypeTable t
Redecided(t) ==
    IF LastCall.stage = "type"
    THEN IF variant = "pySNID"
         THEN SNID_type_decide(t, file.template_results)
         ELSE BSNIP_type_decide(t, file.template_results)
    ELSE SNID_subtype_decide(t, file.template_results,
                             LastCall.args.template_type)

\* C20: the Type and the Subtype stage give, on every reordering of the
\* TypeTable rows and the same TemplateTable, the result they give on the
\* table as it stands, also when two rows tie for the highest fraction.
C20_TypeTableOrderIrrelevant ==
    (/\ calls # << >>
     /\ LastCall.stage \in {"type", "subtype"}
     /\ LastCall.parsed) =>
        \A p \in Permutations(DOMAIN file.type_results) :
            LET d == Redecided(Reordered(file.type_results, p))
            IN d.raised = LastCall.raised /\ d.value = LastCall.value

\* the number of lines before the listing marker
ListingIndex ==
    (CHOOSE i \in DOMAIN file.lines :
        /\ LISTING \in file.lines[i].has
        /\ \A j \in 1..(i - 1) : LISTING \notin file.lines[j].has) - 1

\* C21: once the start and the row count of the type section are set, at
\* the assumed offset or at the re-located one, tp_res_start +
\* max_rows_type + 7 is the line index of the listing marker plus 2; the
\* start of the template section that the call returns with is that index;
\* and on a report with its delimiter lines the TemplateTable returned is
\* the report's, whether the except block ran or not.
C21_TemplateStartFromMarker ==
    /\ pc \in {"read_try", "read_except", "read_rlap", "returned"} =>
          IntOf(res.tp_res_start) + IntOf(res.max_rows_type) + 7
              = ListingIndex + 2
    /\ pc = "returned" =>
          /\ res.rlap_res_start = PyInt(ListingIndex + 2)
          /\ res.template_results = NdArray(file.template_results)

\* the except block ran and moved the start of the type section
C21_Witness ==
    /\ pc = "returned"
    /\ res.attempts = 2
    /\ res.tp_res_start = PyInt(TP_RES_START + 1)
    /\ res.rlap_res_start = PyInt(ListingIndex + 2)
    /\ res.template_results = NdArray(file.template_results)

\* C22: when the Subtype stage accepted a subtype and the Redshift run
\* restricted to it came back undetermined, that Redshift call is the last
\* and only Redshift call of the run, no Age call is made, the run is over,
\* and it returns the accepted type and subtype with the redshift, its
\* error, the age and its error all None.
C22_NoFallbackAfterSubtypeRedshift ==
    (/\ DeterminedCalls("subtype") # {}
     /\ \E i \in CallsOf("redshift") : Undetermined(calls[i])) =>
        /\ Ended
        /\ Cardinality(CallsOf("redshift")) = 1
        /\ CallsOf("age") = {}
        /\ LastCall.stage = "redshift"
        /\ RestrictedTo(Len(calls), Accepted("subtype"))
        /\ res.SN_type = Accepted("type")
        /\ res.SN_subtype = Accepted("subtype")
        /\ res.z_snid = None
        /\ res.z_snid_error = None
        /\ res.age = None
        /\ res.age_error = None

\* type Ia and subtype Ia-norm found, then a redshift run with no good row
C22_Witness ==
    /\ pc = "done"
    /\ res.SN_type = PyStr(Ia)
    /\ res.SN_subtype = PyStr(IaNorm)
    /\ LastCall.stage = "redshift"
    /\ LastCall.launched
    /\ LastCall.parsed
    /\ LastCall.value = <<None, None>>

====
